---- MODULE Spec2Model ----
(***************************************************************************)
(* Model of portal_app.py, the Streamlit "CSV Joiner Portal".              *)
(*                                                                         *)
(* The script is re-executed from top to bottom on every widget            *)
(* interaction; st.session_state.file_set survives between executions.     *)
(* One action of Spec is one interaction followed by the whole script run. *)
(*                                                                         *)
(* Library calls are modelled by their documented behaviour:               *)
(*   st.file_uploader  returns the uploaded files in upload order; the     *)
(*                     files carry pairwise distinct names;                *)
(*   sort_items        returns the items it is given, rearranged by the    *)
(*                     user's drag (unchanged when nothing was dragged);   *)
(*   pd.read_csv       raises on malformed input and on a buffer that was  *)
(*                     already read to its end; a column holding text is   *)
(*                     of object dtype, any other column is numeric;       *)
(*   Series.round      rounds half to even;  astype("Int64") keeps missing *)
(*                     values missing and raises on text; numbers are      *)
(*                     finite and inside the range of Int64;               *)
(*   pd.concat         outer join of the columns in order of first         *)
(*                     appearance, missing cells filled with NA;           *)
(*   to_csv            writes NA as an empty field.                        *)
(***************************************************************************)
EXTENDS Integers, Sequences, FiniteSets, TLC

VARIABLES
    uploaded_files,     \* value of st.file_uploader: sequence of [name, content]
    file_set,           \* st.session_state.file_set
    ordered_names,      \* result of sort_items in the last run that drew it
    remove_confidence,  \* value of the checkbox
    download,           \* what the last run ended with: download button / exception
    event,              \* the interaction that started the last script run
    df,                 \* input table of the per-file transform (SpecTransform)
    out                 \* result of the per-file transform (SpecTransform)

vars == <<uploaded_files, file_set, ordered_names, remove_confidence, download,
          event, df, out>>

----------------------------------------------------------------------------
(* Bounds *)

MaxCells == 4       \* cells per table of SpecTransform
Scale == 4          \* a numeric cell v stands for the number v / Scale
MaxFiles == 3       \* files in the uploader of a session (Spec)
MaxMerge == 2       \* files in the uploader of SpecMerge

----------------------------------------------------------------------------
(* Cells and tables (pandas DataFrame as produced by pd.read_csv) *)

NA == [k |-> "na", v |-> 0]
NumCell(q) == [k |-> "num", v |-> q]
IntCell(n) == [k |-> "int", v |-> n]
StrCell(i) == [k |-> "str", v |-> i]

Range(s) == {s[i] : i \in DOMAIN s}

IsDistinct(s) == \A i, j \in DOMAIN s : i # j => s[i] # s[j]

EmptyTable == [columns |-> <<>>, nrows |-> 0, data |-> <<>>]

\* df[col] : the cells of one column, top to bottom
Column(t, col) == t.data[col]

\* a column read by pd.read_csv is of object dtype when it holds text
IsObject(series) == \E i \in DOMAIN series : series[i].k = "str"

----------------------------------------------------------------------------
(* process_df *)

EndsWith(s, suffix) ==
    /\ Len(s) >= Len(suffix)
    /\ SubSeq(s, Len(s) - Len(suffix) + 1, Len(s)) = suffix

IsXYZ(col) == EndsWith(col, "_X") \/ EndsWith(col, "_Y") \/ EndsWith(col, "_Z")

RoundTruncate(q) == IF q >= 0 THEN q \div Scale ELSE -((-q) \div Scale)

\* Series.round(): the nearest integer of q / Scale, halves to the even one
RoundHalfEven(q) ==
    LET lo == q \div Scale
        r  == q % Scale
    IN  IF 2 * r < Scale THEN lo
        ELSE IF 2 * r > Scale THEN lo + 1
        ELSE IF lo % 2 = 0 THEN lo ELSE lo + 1

\* .round().astype("Int64") of one cell of a numeric column
AsInt64(cell) ==
    IF cell.k = "na" THEN NA
    ELSE IF cell.k = "num" THEN IntCell(RoundHalfEven(cell.v))
    ELSE cell

\* the loop of process_df from column i on; an object column makes
\* .round().astype("Int64") raise, and the exception leaves process_df
RECURSIVE ProcessFrom(_, _)
ProcessFrom(t, i) ==
    IF i > Len(t.columns) THEN [status |-> "ok", df |-> t]
    ELSE LET col == t.columns[i]
         IN  IF ~IsXYZ(col) THEN ProcessFrom(t, i + 1)
             ELSE IF IsObject(Column(t, col)) THEN [status |-> "raised", df |-> t]
             ELSE ProcessFrom(
                    [t EXCEPT !.data[col] = [r \in DOMAIN @ |-> AsInt64(@[r])]],
                    i + 1)

process_df(t) == ProcessFrom(t, 1)

----------------------------------------------------------------------------
(* per-file transform: optional drop of *_Confidence columns, then process_df *)

IsConfidence(col) == EndsWith(col, "_Confidence")

DropColumns(t, drop) ==
    LET keep == SelectSeq(t.columns, LAMBDA c : c \notin drop)
    IN  [columns |-> keep,
         nrows   |-> t.nrows,
         data    |-> [c \in Range(keep) |-> t.data[c]]]

DropAlways(t, flag) ==
    DropColumns(t, {c \in Range(t.columns) : IsConfidence(c)})

\* "if remove_confidence: df = df.drop(columns=conf_cols, errors='ignore')"
DropConfidence(t, flag) ==
    IF flag
    THEN DropColumns(t, {c \in Range(t.columns) : IsConfidence(c)})
    ELSE t

Transform(t, flag) == process_df(DropConfidence(t, flag))

----------------------------------------------------------------------------
(* Process & Download *)

\* names = [f.name for f in uploaded_files]
NamesOf(files) == [i \in DOMAIN files |-> files[i].name]

\* file_map = {f.name: f for f in uploaded_files}: a later file replaces an
\* earlier one of the same name
file_map(files) ==
    [n \in Range(NamesOf(files)) |->
        files[CHOOSE i \in DOMAIN files :
                /\ files[i].name = n
                /\ \A j \in DOMAIN files : files[j].name = n => j <= i]]

\* pd.read_csv of an uploaded buffer
read_csv(content) ==
    IF content.kind = "csv" THEN [status |-> "ok", df |-> content.table]
    ELSE [status |-> "ParserError", df |-> EmptyTable]

Failure(what) == [status |-> what, dfs |-> <<>>]

\* the body of "for fname in ordered_names" from position i on; dfs are the
\* tables appended so far, consumed the buffers already read to their end.
\* Any exception ends the script run.
RECURSIVE MergeLoopUploadOrder(_, _, _, _, _, _)
MergeLoopUploadOrder(files, order, flag, i, dfs, consumed) ==
    IF i > Len(files) THEN [status |-> "ok", dfs |-> dfs]
    ELSE LET read == read_csv(files[i].content)
             t    == Transform(read.df, flag)
         IN  IF read.status # "ok" THEN Failure(read.status)
             ELSE IF t.status # "ok" THEN Failure("TypeError")
             ELSE MergeLoopUploadOrder(files, order, flag, i + 1,
                                       Append(dfs, t.df), consumed)

RECURSIVE MergeLoopSkipFailed(_, _, _, _, _, _)
MergeLoopSkipFailed(files, order, flag, i, dfs, consumed) ==
    IF i > Len(order) THEN [status |-> "ok", dfs |-> dfs]
    ELSE LET fname == order[i]
         IN  IF fname \notin DOMAIN file_map(files) THEN Failure("KeyError")
             ELSE LET read == read_csv(file_map(files)[fname].content)
                      t    == Transform(read.df, flag)
                  IN  IF fname \in consumed \/ read.status # "ok" \/ t.status # "ok"
                      THEN MergeLoopSkipFailed(files, order, flag, i + 1, dfs,
                                               consumed \cup {fname})
                      ELSE MergeLoopSkipFailed(files, order, flag, i + 1,
                                               Append(dfs, t.df),
                                               consumed \cup {fname})

RECURSIVE MergeLoop(_, _, _, _, _, _)
MergeLoop(files, order, flag, i, dfs, consumed) ==
    IF i > Len(order) THEN [status |-> "ok", dfs |-> dfs]
    ELSE LET fname == order[i]
         IN  IF fname \notin DOMAIN file_map(files) THEN Failure("KeyError")
             ELSE IF fname \in consumed THEN Failure("EmptyDataError")
             ELSE LET read == read_csv(file_map(files)[fname].content)
                      t    == Transform(read.df, flag)
                  IN  IF read.status # "ok" THEN Failure(read.status)
                      ELSE IF t.status # "ok" THEN Failure("TypeError")
                      ELSE MergeLoop(files, order, flag, i + 1,
                                     Append(dfs, t.df), consumed \cup {fname})

\* pd.concat(dfs, ignore_index=True): the columns of all tables in order of
\* first appearance
RECURSIVE ConcatColumnsInner(_)
ConcatColumnsInner(dfs) ==
    IF Len(dfs) = 1 THEN dfs[1].columns
    ELSE SelectSeq(ConcatColumnsInner(SubSeq(dfs, 1, Len(dfs) - 1)),
                   LAMBDA c : c \in Range(dfs[Len(dfs)].columns))

RECURSIVE ConcatColumns(_)
ConcatColumns(dfs) ==
    IF dfs = <<>> THEN <<>>
    ELSE LET before == ConcatColumns(SubSeq(dfs, 1, Len(dfs) - 1))
         IN  before \o SelectSeq(dfs[Len(dfs)].columns,
                                 LAMBDA c : c \notin Range(before))

\* the cells of column c of the concatenation; a table without the column
\* contributes NA for each of its rows
RECURSIVE ConcatColumn(_, _)
ConcatColumn(dfs, c) ==
    IF dfs = <<>> THEN <<>>
    ELSE LET t == dfs[Len(dfs)]
         IN  ConcatColumn(SubSeq(dfs, 1, Len(dfs) - 1), c)
             \o (IF c \in Range(t.columns) THEN t.data[c]
                 ELSE [r \in 1..t.nrows |-> NA])

RECURSIVE TotalRows(_)
TotalRows(dfs) ==
    IF dfs = <<>> THEN 0
    ELSE TotalRows(SubSeq(dfs, 1, Len(dfs) - 1)) + dfs[Len(dfs)].nrows

Concat(dfs) ==
    LET cols == ConcatColumns(dfs)
    IN  [columns |-> cols,
         nrows   |-> TotalRows(dfs),
         data    |-> [c \in Range(cols) |-> ConcatColumn(dfs, c)]]

\* combined.to_csv(buf, index=False): a missing value is written as an
\* empty field
Field(cell) == [k |-> IF cell.k = "na" THEN "empty" ELSE cell.k, v |-> cell.v]

to_csv(t) ==
    [header |-> t.columns,
     lines  |-> [i \in 1..t.nrows |->
                    [j \in 1..Len(t.columns) |-> Field(t.data[t.columns[j]][i])]]]

NoDownload == [status |-> "none", header |-> <<>>, lines |-> <<>>]

Raised(what) == [status |-> what, header |-> <<>>, lines |-> <<>>]

\* the body of "if st.button(...)": the download button it draws, or the
\* exception that ends the run before the button is drawn
ProcessAndDownload(files, order, flag) ==
    LET merged == MergeLoop(files, order, flag, 1, <<>>, {})
    IN  IF merged.status # "ok" THEN Raised(merged.status)
        ELSE IF merged.dfs = <<>> THEN Raised("ValueError")
        ELSE LET csv == to_csv(Concat(merged.dfs))
             IN  [status |-> "offered", header |-> csv.header, lines |-> csv.lines]

----------------------------------------------------------------------------
(* Inputs of SpecTransform *)

ColNames == {"Pos_X", "Pos_Y", "Tip_Z", "Pos_Confidence", "Joint1_Xray"}

\* the cells of the input tables: missing, text, 0.5 and 1.5 (halves) and
\* -0.75; numbers are finite and inside the range of Int64
Cells == {NA, StrCell(1), NumCell(Scale \div 2), NumCell(Scale + Scale \div 2), NumCell(1 - Scale)}

ColumnLists ==
    {cs \in UNION {[1..n -> ColNames] : n \in 0..MaxCells} : IsDistinct(cs)}

\* the tables of n rows over the columns cs
IsTable(t, cs, n) ==
    \E d \in [Range(cs) -> [1..n -> Cells]] :
        t = [columns |-> cs, nrows |-> n, data |-> d]

NoResult == [status |-> "none", df |-> EmptyTable]

InitTransform ==
    /\ \E cs \in ColumnLists, n \in 0..MaxCells :
          /\ Len(cs) * n <= MaxCells
          /\ IsTable(df, cs, n)
    /\ remove_confidence \in BOOLEAN
    /\ out = NoResult
    /\ uploaded_files = <<>>
    /\ file_set = <<>>
    /\ ordered_names = <<>>
    /\ download = NoDownload
    /\ event = "init"

ApplyTransform ==
    /\ event = "init"
    /\ out' = Transform(df, remove_confidence)
    /\ event' = "transform"
    /\ UNCHANGED <<uploaded_files, file_set, ordered_names, remove_confidence,
                   download, df>>

SpecTransform == InitTransform /\ [][ApplyTransform]_vars

----------------------------------------------------------------------------
(* Inputs of SpecMerge: the uploaded CSV files *)

FileNames == <<"a.csv", "b.csv", "c.csv", "d.csv", "e.csv">>

Names == {FileNames[i] : i \in 1..MaxFiles}

Half == Scale \div 2

Csv(t) == [kind |-> "csv", table |-> t]

Malformed == [kind |-> "malformed", table |-> EmptyTable]

\* Name,Pos_X,Pos_Y,Pos_Confidence / a,1.5,2.5,0.75
PoseWithConfidence ==
    Csv([columns |-> <<"Name", "Pos_X", "Pos_Y", "Pos_Confidence">>,
         nrows   |-> 1,
         data    |-> [c \in {"Name", "Pos_X", "Pos_Y", "Pos_Confidence"} |->
                        CASE c = "Name"  -> <<StrCell(1)>>
                          [] c = "Pos_X" -> <<NumCell(Scale + Half)>>
                          [] c = "Pos_Y" -> <<NumCell(2 * Scale + Half)>>
                          [] OTHER       -> <<NumCell(Scale - 1)>>]])

\* Name,Pos_X,Pos_Y / b,3.5,4.25
Pose ==
    Csv([columns |-> <<"Name", "Pos_X", "Pos_Y">>,
         nrows   |-> 1,
         data    |-> [c \in {"Name", "Pos_X", "Pos_Y"} |->
                        CASE c = "Name"  -> <<StrCell(2)>>
                          [] c = "Pos_X" -> <<NumCell(3 * Scale + Half)>>
                          [] OTHER       -> <<NumCell(4 * Scale + 1)>>]])

\* Pos_Y,Frame,Name / ,1,c / -0.5,2,
Frames ==
    Csv([columns |-> <<"Pos_Y", "Frame", "Name">>,
         nrows   |-> 2,
         data    |-> [c \in {"Pos_Y", "Frame", "Name"} |->
                        CASE c = "Pos_Y" -> <<NA, NumCell(-Half)>>
                          [] c = "Frame" -> <<NumCell(Scale), NumCell(2 * Scale)>>
                          [] OTHER       -> <<StrCell(3), NA>>]])

\* Name,Pos_X / d,0.5 / e,lost
TextInX ==
    Csv([columns |-> <<"Name", "Pos_X">>,
         nrows   |-> 2,
         data    |-> [c \in {"Name", "Pos_X"} |->
                        CASE c = "Name" -> <<StrCell(4), StrCell(5)>>
                          [] OTHER      -> <<NumCell(Half), StrCell(6)>>]])

\* Tip_Z,Tip_Confidence and no data row
HeaderOnly ==
    Csv([columns |-> <<"Tip_Z", "Tip_Confidence">>,
         nrows   |-> 0,
         data    |-> [c \in {"Tip_Z", "Tip_Confidence"} |-> <<>>]])

\* Frame,Pos_X / 3,-0.75 / 4,
Track ==
    Csv([columns |-> <<"Frame", "Pos_X">>,
         nrows   |-> 2,
         data    |-> [c \in {"Frame", "Pos_X"} |->
                        CASE c = "Frame" -> <<NumCell(3 * Scale), NumCell(4 * Scale)>>
                          [] OTHER       -> <<NumCell(1 - Scale), NA>>]])

Contents ==
    {PoseWithConfidence, Pose, Frames, Track, TextInX, HeaderOnly, Malformed}

\* the names an order may hold: those of the uploaded files and one more
MergeNames == {FileNames[i] : i \in 1..(MaxMerge + 1)}

InitMerge ==
    /\ \E n \in 1..MaxMerge : \E cs \in [1..n -> Contents] :
          uploaded_files = [i \in 1..n |-> [name |-> FileNames[i], content |-> cs[i]]]
    /\ \E m \in 0..Len(uploaded_files) : ordered_names \in [1..m -> MergeNames]
    /\ file_set = ordered_names
    /\ remove_confidence \in BOOLEAN
    /\ download = NoDownload
    /\ event = "init"
    /\ df = EmptyTable
    /\ out = NoResult

ClickMerge ==
    /\ event = "init"
    /\ download' = ProcessAndDownload(uploaded_files, ordered_names, remove_confidence)
    /\ event' = "process"
    /\ UNCHANGED <<uploaded_files, file_set, ordered_names, remove_confidence, df, out>>

SpecMerge == InitMerge /\ [][ClickMerge]_vars

----------------------------------------------------------------------------
(* The script run *)

\* "if set(st.session_state.file_set) != set(names): file_set = names.copy()"
ResetWhenEmpty(stored, names) ==
    IF stored = <<>> THEN names ELSE stored

ResetOrder(stored, names) ==
    IF Range(stored) # Range(names) THEN names ELSE stored

\* sort_items: the items as the user's drag arranged them; arrangement[i] is
\* the position the i-th item shown came from (the identity without a drag)
sort_items(items, arrangement) ==
    IF DOMAIN arrangement = DOMAIN items
    THEN [i \in DOMAIN items |-> items[arrangement[i]]]
    ELSE items

\* a run in which the uploader holds files
RunWithFiles(files, stored, arrangement, checkbox, clicked) ==
    LET names   == NamesOf(files)
        ordered == sort_items(ResetOrder(stored, names), arrangement)
    IN  [file_set          |-> ordered,
         ordered_names     |-> ordered,
         remove_confidence |-> checkbox,
         download          |-> IF clicked
                               THEN ProcessAndDownload(files, ordered, checkbox)
                               ELSE NoDownload]

\* a run in which the uploader is empty: the block under "if uploaded_files"
\* is skipped, its widgets are not drawn and lose their values
RunWithoutFilesEmptyCsv(stored) ==
    [file_set          |-> stored,
     ordered_names     |-> <<>>,
     remove_confidence |-> FALSE,
     download          |-> [status |-> "offered", header |-> <<>>, lines |-> <<>>]]

RunWithoutFiles(stored) ==
    [file_set          |-> stored,
     ordered_names     |-> <<>>,
     remove_confidence |-> FALSE,
     download          |-> NoDownload]

ScriptRun(files, arrangement, checkbox, clicked) ==
    LET run == IF files # <<>>
               THEN RunWithFiles(files, file_set, arrangement, checkbox, clicked)
               ELSE RunWithoutFiles(file_set)
    IN  /\ uploaded_files' = files
        /\ file_set' = run.file_set
        /\ ordered_names' = run.ordered_names
        /\ remove_confidence' = run.remove_confidence
        /\ download' = run.download
        /\ UNCHANGED <<df, out>>

----------------------------------------------------------------------------
(* The interactions of a session *)

SessionContents == <<PoseWithConfidence, Pose, TextInX, Frames, Malformed>>

UploadedFile(name) ==
    [name    |-> name,
     content |-> SessionContents[CHOOSE i \in DOMAIN FileNames : FileNames[i] = name]]

NoDrag == <<>>

Arrangements(n) ==
    {p \in [1..n -> 1..n] : \A i, j \in 1..n : i # j => p[i] # p[j]}

Init ==
    /\ uploaded_files = <<>>
    /\ file_set = <<>>
    /\ ordered_names = <<>>
    /\ remove_confidence = FALSE
    /\ download = NoDownload
    /\ event = "init"
    /\ df = EmptyTable
    /\ out = NoResult

\* the user selects one or several files in the uploader; the run starts
\* when all of them are uploaded
AddFiles ==
    \E n \in 1..(MaxFiles - Len(uploaded_files)) : \E new \in [1..n -> Names] :
        /\ IsDistinct(NamesOf(uploaded_files) \o new)
        /\ event' = "upload"
        /\ ScriptRun(uploaded_files \o [i \in 1..n |-> UploadedFile(new[i])],
                     NoDrag, remove_confidence, FALSE)

\* the user removes files from the uploader; removals made before the next
\* run starts are seen by that run together
RemoveFiles ==
    \E gone \in (SUBSET DOMAIN uploaded_files) \ {{}} :
        /\ event' = "remove"
        /\ ScriptRun(SelectSeq(uploaded_files,
                               LAMBDA f : \A i \in gone : uploaded_files[i] # f),
                     NoDrag, remove_confidence, FALSE)

\* the user drags an item of the sortable list
Drag ==
    /\ uploaded_files # <<>>
    /\ \E p \in Arrangements(Len(file_set)) :
        /\ p # [i \in 1..Len(file_set) |-> i]
        /\ event' = "drag"
        /\ ScriptRun(uploaded_files, p, remove_confidence, FALSE)

\* the user ticks or unticks the checkbox
ToggleConfidence ==
    /\ uploaded_files # <<>>
    /\ event' = "toggle"
    /\ ScriptRun(uploaded_files, NoDrag, ~remove_confidence, FALSE)

\* the user presses Process & Download
ClickProcess ==
    /\ uploaded_files # <<>>
    /\ event' = "process"
    /\ ScriptRun(uploaded_files, NoDrag, remove_confidence, TRUE)

Next == AddFiles \/ RemoveFiles \/ Drag \/ ToggleConfidence \/ ClickProcess

Spec == Init /\ [][Next]_vars

----------------------------------------------------------------------------
(* Helpers of the properties *)

Count(s, x) == Cardinality({i \in DOMAIN s : s[i] = x})

\* s holds exactly the elements of t, each as often as t does
IsPermutationOf(s, t) ==
    /\ Len(s) = Len(t)
    /\ \A x \in Range(s) \cup Range(t) : Count(s, x) = Count(t, x)

IndexOf(h, c) == CHOOSE j \in DOMAIN h : h[j] = c

Abs(x) == IF x < 0 THEN -x ELSE x

XYZNames == {"Pos_X", "Pos_Y", "Tip_Z"}

ConfidenceNames == {"Pos_Confidence", "Tip_Confidence"}

\* the transformed table of the uploaded file named n
TableOf(n) ==
    Transform(read_csv(file_map(uploaded_files)[n].content).df, remove_confidence).df

\* the number of output rows that precede the block of the k-th file of the order
RECURSIVE RowsBefore(_)
RowsBefore(k) ==
    IF k <= 1 THEN 0 ELSE RowsBefore(k - 1) + TableOf(ordered_names[k - 1]).nrows

\* a line of a CSV as column name -> field, and the bag of the lines
RowMap(csv, i) ==
    [c \in Range(csv.header) |-> csv.lines[i][IndexOf(csv.header, c)]]

RowBag(csv) ==
    [m \in {RowMap(csv, i) : i \in DOMAIN csv.lines} |->
        Cardinality({i \in DOMAIN csv.lines : RowMap(csv, i) = m})]

\* the first file of the order (by position) whose transformed table has column c
FirstWith(c) ==
    CHOOSE k \in DOMAIN ordered_names :
        /\ c \in Range(TableOf(ordered_names[k]).columns)
        /\ \A j \in 1..(k - 1) : c \notin Range(TableOf(ordered_names[j]).columns)

----------------------------------------------------------------------------
(* Properties *)

C2_ChangedSetResetsOrder ==
    [][(/\ uploaded_files' # <<>>
        /\ Range(NamesOf(uploaded_files')) # Range(NamesOf(uploaded_files)))
       => file_set' = NamesOf(uploaded_files')]_vars

C4_BlocksInMergeOrder ==
    (/\ event = "process"
     /\ download.status = "offered"
     /\ IsPermutationOf(ordered_names, NamesOf(uploaded_files)))
    => /\ Len(download.lines) = RowsBefore(Len(ordered_names) + 1)
       /\ \A k \in DOMAIN ordered_names :
            LET t == TableOf(ordered_names[k])
            IN  \A r \in 1..t.nrows : \A c \in Range(t.columns) :
                    /\ c \in Range(download.header)
                    /\ download.lines[RowsBefore(k) + r][IndexOf(download.header, c)]
                         = Field(t.data[c][r])
       /\ \A p \in Arrangements(Len(ordered_names)) :
            LET other == ProcessAndDownload(uploaded_files,
                                            sort_items(ordered_names, p),
                                            remove_confidence)
            IN  /\ other.status = "offered"
                /\ Len(other.lines) = Len(download.lines)
                /\ RowBag(other) = RowBag(download)

\* files with rows were merged in an order other than the upload order
C4_Witness ==
    /\ event = "process"
    /\ download.status = "offered"
    /\ Len(uploaded_files) >= 2
    /\ IsPermutationOf(ordered_names, NamesOf(uploaded_files))
    /\ ordered_names # NamesOf(uploaded_files)
    /\ \A k \in DOMAIN ordered_names : TableOf(ordered_names[k]).nrows > 0
    /\ \E i, j \in DOMAIN download.lines : download.lines[i] # download.lines[j]

\* C5: when reading or transforming a file of the merge order fails, the run
\* offers no download and no CSV text at all.
C5_NoPartialOutput ==
    (/\ event = "process"
     /\ \E k \in DOMAIN ordered_names :
            /\ ordered_names[k] \in Range(NamesOf(uploaded_files))
            /\ LET read == read_csv(file_map(uploaded_files)[ordered_names[k]].content)
               IN  \/ read.status # "ok"
                   \/ Transform(read.df, remove_confidence).status # "ok")
    => /\ download.status # "offered"
       /\ download.header = <<>>
       /\ download.lines = <<>>

\* the second file of a valid order failed after a first file with rows
C5_Witness ==
    /\ event = "process"
    /\ Len(ordered_names) >= 2
    /\ IsPermutationOf(ordered_names, NamesOf(uploaded_files))
    /\ read_csv(file_map(uploaded_files)[ordered_names[1]].content).status = "ok"
    /\ TableOf(ordered_names[1]).nrows > 0
    /\ Transform(read_csv(file_map(uploaded_files)[ordered_names[1]].content).df,
                 remove_confidence).status = "ok"
    /\ download.status \in {"ParserError", "TypeError"}

\* C6: with zero files uploaded no run offers a download.
C6_NoDownloadWithoutFiles ==
    uploaded_files = <<>> => download.status # "offered"

\* a run took place after the last files were removed
C6_Witness ==
    /\ uploaded_files = <<>>
    /\ event = "remove"
    /\ file_set # <<>>

\* C7: the transform keeps the row count; with the flag false it keeps the
\* columns and their order, with the flag true it removes exactly the columns
\* whose name ends with _Confidence.
C7_TransformKeepsShape ==
    (event = "transform" /\ out.status = "ok")
    => /\ out.df.nrows = df.nrows
       /\ \A c \in Range(out.df.columns) : Len(out.df.data[c]) = df.nrows
       /\ ~remove_confidence => out.df.columns = df.columns
       /\ remove_confidence =>
            /\ out.df.columns
                 = SelectSeq(df.columns, LAMBDA c : c \notin ConfidenceNames)
            /\ Len(out.df.columns)
                 = Len(df.columns)
                   - Cardinality({i \in DOMAIN df.columns :
                                     df.columns[i] \in ConfidenceNames})

\* a table with rows lost its confidence column and kept another column
C7_Witness ==
    /\ event = "transform"
    /\ out.status = "ok"
    /\ remove_confidence
    /\ df.nrows > 0
    /\ "Pos_Confidence" \in Range(df.columns)
    /\ Len(out.df.columns) = 1

\* C8: process_df replaces each number of a column whose name ends with _X, _Y
\* or _Z by a nearest integer (a half goes to the even neighbour), keeps each
\* missing value missing and leaves every other column as it was.
C8_RoundsXYZOnly ==
    (event = "transform" /\ out.status = "ok")
    => \A c \in Range(out.df.columns) : \A r \in 1..df.nrows :
          LET a == df.data[c][r]
              b == out.df.data[c][r]
          IN  IF c \in XYZNames
              THEN /\ a.k = "na" => b = NA
                   /\ a.k = "num" =>
                        /\ b.k = "int"
                        /\ 2 * Abs(b.v * Scale - a.v) <= Scale
                        /\ 2 * Abs(b.v * Scale - a.v) = Scale => b.v % 2 = 0
              ELSE b = a

\* a column _X with a number and a missing value beside a column Joint1_Xray
C8_Witness ==
    /\ event = "transform"
    /\ out.status = "ok"
    /\ df.columns = <<"Pos_X", "Joint1_Xray">>
    /\ df.nrows = 2
    /\ df.data["Pos_X"][1].k = "num"
    /\ df.data["Pos_X"][2].k = "na"
    /\ df.data["Joint1_Xray"][1].k = "num"
    /\ out.df.data["Pos_X"][1].k = "int"

\* C9: the header of the combined output is the union of the transformed
\* files' columns in the order of first encounter along the merge order, and
\* a row of a file that lacks a column has an empty field in that column.
C9_HeaderIsUnionInFirstSeenOrder ==
    (event = "process" /\ download.status = "offered")
    => LET h == download.header
       IN  /\ IsDistinct(h)
           /\ Range(h) = UNION {Range(TableOf(ordered_names[k]).columns) :
                                    k \in DOMAIN ordered_names}
           /\ \A i, j \in DOMAIN h :
                i < j =>
                    \/ FirstWith(h[i]) < FirstWith(h[j])
                    \/ /\ FirstWith(h[i]) = FirstWith(h[j])
                       /\ LET cols == TableOf(ordered_names[FirstWith(h[i])]).columns
                          IN  IndexOf(cols, h[i]) < IndexOf(cols, h[j])
           /\ \A k \in DOMAIN ordered_names :
                LET t == TableOf(ordered_names[k])
                IN  \A r \in 1..t.nrows : \A c \in Range(h) \ Range(t.columns) :
                        download.lines[RowsBefore(k) + r][IndexOf(h, c)]
                            = [k |-> "empty", v |-> 0]

\* a file with rows lacks a column that a later file of the order brings in
C9_Witness ==
    /\ event = "process"
    /\ download.status = "offered"
    /\ \E k \in DOMAIN ordered_names : \E c \in Range(download.header) :
            /\ TableOf(ordered_names[k]).nrows > 0
            /\ c \notin Range(TableOf(ordered_names[k]).columns)
            /\ FirstWith(c) > k
            /\ \E c2 \in Range(download.header) :
                    /\ FirstWith(c2) < FirstWith(c)
                    /\ c2 \notin Range(TableOf(ordered_names[FirstWith(c)]).columns)

\* C10: a column _X, _Y or _Z that holds text does not make the transform
\* fail: the text becomes missing and the numbers of the column are rounded.
C10_TextBecomesMissing ==
    (/\ event = "transform"
     /\ \E c \in Range(df.columns) \cap XYZNames :
            \E r \in 1..df.nrows : df.data[c][r].k = "str")
    => /\ out.status = "ok"
       /\ \A c \in Range(out.df.columns) \cap XYZNames : \A r \in 1..df.nrows :
            /\ df.data[c][r].k = "str" => out.df.data[c][r] = NA
            /\ df.data[c][r].k = "num" => out.df.data[c][r].k = "int"

====
